---- MODULE Spec2Model ----
(***************************************************************************)
(* Focus Ratio: the focus / presence state reconciliation engine.          *)
(*                                                                         *)
(* ProductivityTracker (src/app.js), PresenceDetector and PomodoroTimer    *)
(* and ProductivityDatabase (src/webcam.js), wired together by the         *)
(* DOMContentLoaded handler of src/app.js.  Every event handler of the     *)
(* page is one action; the browser's event loop runs them one at a time.   *)
(*                                                                         *)
(* Time is the value of Date.now(), in units of one second, read once per  *)
(* handler.  A calendar day is DayLen units long.                          *)
(***************************************************************************)
EXTENDS Integers, Sequences, FiniteSets, TLC

\* ------------------------------------------------------------------ bounds
MaxTime == 5
DayLen == 4
TzOffset == 1
MaxSessions == 2
StartTime == 1
MaxPomodoros == 2
QueryDays == 4
\* the last clock reading of the runs with several away intervals
MaxAwayTime == 10
\* the Pomodoro phase lengths (25, 5 and 15 minutes in the source), scaled to
\* the clock so that a phase can run out before MaxTime
WorkDuration == 2
ShortBreakDuration == 1
LongBreakDuration == 2
\* the number of work phases before a long break (4 in the source), scaled
\* so that a long break is reached within MaxPomodoros
LongBreakInterval == 2

\* -------------------------------------------------------- program constants
AwayThreshold == 3
ReturnThreshold == 1
\* the delay of the setTimeout that starts the next phase
AutoStartDelay == 1

\* null / undefined / NaN: below every number the model computes
Null == -1000

VARIABLES
    now,              \* Date.now()
    page,             \* "open" | "closed": is the document alive
    state,            \* ProductivityTracker.state
    storage,          \* localStorage['focusRatioState'], NoSlot when absent
    db,               \* IndexedDB store 'dailyStats': date key -> record
    hasDb,            \* is window.productivityDB set
    presence,         \* PresenceDetector.state
    returnCheckStart, \* PresenceDetector.returnCheckStart
    pomodoro,         \* PomodoroTimer.state and timerInterval
    lastOp,           \* the handler that ran last
    fired,            \* presence callback invoked by the last handler
    input,            \* what the last handler was given: the sample of
                      \* onResults, the answer of confirm(), or "none"
    result,           \* the value the last database query resolved to
    thrown,           \* did the last handler end by an uncaught exception
    prev,             \* ProductivityTracker.state before the last handler
    hist              \* the focus intervals opened and closed since Init

vars == <<now, page, state, storage, db, hasDb, presence, returnCheckStart,
          pomodoro, lastOp, fired, input, result, thrown, prev, hist>>

\* ------------------------------------------------------------- JS helpers
\* truthiness of a timestamp-or-null value (0 and null are falsy)
Truthy(v) == v # Null /\ v # 0

\* `v || 0`
OrZero(v) == IF Truthy(v) THEN v ELSE 0

Min(a, b) == IF a <= b THEN a ELSE b

\* Date.prototype.toISOString: the UTC calendar fields of the instant
toISOString(t) == [day |-> t \div DayLen, ms |-> t % DayLen]

\* parseDate reading the date part of the string only
parseDate_dateOnly(iso) == iso.day * DayLen

\* new Date(isoString).getTime()
parseDate(iso) == iso.day * DayLen + iso.ms

\* Date.prototype.toDateString: the local calendar date of the instant
toDateString(t) == (t + TzOffset) \div DayLen

\* toISOString().split('T')[0]: the UTC calendar date of the instant
isoDateKey(t) == toISOString(t).day

\* a percentage focus / real * 100 as an exact fraction <<numerator, denominator>>
Percent(focus, real) == IF real > 0 THEN <<focus * 100, real>> ELSE <<0, 1>>

AtMost100(p) == p[1] <= 100 * p[2]

NoSlot == [absent |-> TRUE]

NoResult == [records |-> <<>>]

\* a slot whose text JSON.parse rejects, or parses to null
Unparseable == [unparseable |-> TRUE]

\* a realTimeStart that is missing or that new Date() reads as Invalid Date
InvalidDate == [invalid |-> TRUE]

\* a counter that is not a number (a non-empty string): truthy, so that
\* `v || 0` keeps it
NonNumeric == Null - 1

\* ------------------------------------------------- ProductivityTracker
\* the constructor's state literal
ConstructorState ==
    [realTimeStart |-> Null, focusTimeAccumulated |-> 0, focusTimeStart |-> Null,
     isFocusing |-> FALSE, focusSessions |-> 0, longestStreak |-> 0,
     currentStreakStart |-> Null]

\* the blob written by saveState()
saveState(st) ==
    [realTimeStart |-> toISOString(st.realTimeStart),
     focusTimeAccumulated |-> st.focusTimeAccumulated,
     focusSessions |-> st.focusSessions,
     longestStreak |-> st.longestStreak]

\* resetForNewDay(): the state it leaves (its saveState() is saveState of the result)
resetForNewDay(st, t) ==
    [st EXCEPT !.realTimeStart = t, !.focusTimeAccumulated = 0,
               !.focusTimeStart = Null, !.isFocusing = FALSE,
               !.focusSessions = 0, !.longestStreak = 0]

\* loadState that restores the blob whatever its date
loadState_anyDay(st, slot, t) ==
    IF slot = NoSlot THEN resetForNewDay(st, t)
    ELSE [st EXCEPT !.realTimeStart = parseDate(slot.realTimeStart),
                    !.focusTimeAccumulated = OrZero(slot.focusTimeAccumulated),
                    !.isFocusing = FALSE,
                    !.focusSessions = OrZero(slot.focusSessions),
                    !.longestStreak = OrZero(slot.longestStreak)]

\* loadState that resumes the interval of a restored session
loadState_resumes(st, slot, t) ==
    IF slot = NoSlot THEN resetForNewDay(st, t)
    ELSE IF toDateString(parseDate(slot.realTimeStart)) = toDateString(t)
         THEN [st EXCEPT !.realTimeStart = parseDate(slot.realTimeStart),
                         !.focusTimeAccumulated = OrZero(slot.focusTimeAccumulated),
                         !.isFocusing = slot.focusSessions > 0,
                         !.focusTimeStart = IF slot.focusSessions > 0 THEN t ELSE Null,
                         !.focusSessions = OrZero(slot.focusSessions),
                         !.longestStreak = OrZero(slot.longestStreak)]
         ELSE resetForNewDay(st, t)

\* loadState(): the state it leaves, given the slot read from localStorage
loadState(st, slot, t) ==
    IF slot = NoSlot THEN resetForNewDay(st, t)
    ELSE IF slot = Unparseable THEN resetForNewDay(st, t)
    ELSE IF slot.realTimeStart = InvalidDate THEN resetForNewDay(st, t)
    ELSE IF toDateString(parseDate(slot.realTimeStart)) = toDateString(t)
         THEN [st EXCEPT !.realTimeStart = parseDate(slot.realTimeStart),
                         !.focusTimeAccumulated = OrZero(slot.focusTimeAccumulated),
                         !.isFocusing = FALSE,
                         !.focusSessions = OrZero(slot.focusSessions),
                         !.longestStreak = OrZero(slot.longestStreak)]
         ELSE resetForNewDay(st, t)

\* loadState(): the slot it leaves (resetForNewDay saves, a same-day restore does not)
loadStateSlot(st, slot, t) ==
    IF /\ slot # NoSlot
       /\ slot # Unparseable
       /\ slot.realTimeStart # InvalidDate
       /\ toDateString(parseDate(slot.realTimeStart)) = toDateString(t)
    THEN slot
    ELSE saveState(resetForNewDay(st, t))

getRealTimeMs(st, t) == t - st.realTimeStart

getFocusTimeMs(st, t) ==
    IF st.isFocusing /\ st.focusTimeStart # Null
    THEN st.focusTimeAccumulated + (t - st.focusTimeStart)
    ELSE st.focusTimeAccumulated

getCurrentStreakMs(st, t) ==
    IF ~st.isFocusing \/ st.currentStreakStart = Null THEN 0
    ELSE t - st.currentStreakStart

\* updateProductivity(): the percentage it displays
updateProductivity(st, t) ==
    Percent(Min(getFocusTimeMs(st, t), getRealTimeMs(st, t)), getRealTimeMs(st, t))

\* startFocus(): the state it leaves
startFocusState(st, t) ==
    [st EXCEPT !.isFocusing = TRUE, !.focusTimeStart = t,
               !.currentStreakStart = t, !.focusSessions = @ + 1]

\* pauseFocus that leaves focusTimeStart set
pauseFocusState_keepsStart(st, t) ==
    LET credited == IF st.focusTimeStart # Null
                    THEN st.focusTimeAccumulated + (t - st.focusTimeStart)
                    ELSE st.focusTimeAccumulated
        streak == getCurrentStreakMs(st, t)
        longest == IF st.focusTimeStart # Null /\ streak > st.longestStreak
                   THEN streak ELSE st.longestStreak
    IN [st EXCEPT !.focusTimeAccumulated = credited, !.longestStreak = longest,
                  !.isFocusing = FALSE, !.currentStreakStart = Null]

\* pauseFocus that records the last streak instead of the longest
pauseFocusState_lastStreak(st, t) ==
    LET credited == IF st.focusTimeStart # Null
                    THEN st.focusTimeAccumulated + (t - st.focusTimeStart)
                    ELSE st.focusTimeAccumulated
        streak == getCurrentStreakMs(st, t)
        longest == IF st.focusTimeStart # Null THEN streak ELSE st.longestStreak
    IN [st EXCEPT !.focusTimeAccumulated = credited, !.longestStreak = longest,
                  !.isFocusing = FALSE, !.focusTimeStart = Null,
                  !.currentStreakStart = Null]

\* pauseFocus that leaves currentStreakStart set
pauseFocusState_keepsStreakStart(st, t) ==
    LET credited == IF st.focusTimeStart # Null
                    THEN st.focusTimeAccumulated + (t - st.focusTimeStart)
                    ELSE st.focusTimeAccumulated
        streak == getCurrentStreakMs(st, t)
        longest == IF st.focusTimeStart # Null /\ streak > st.longestStreak
                   THEN streak ELSE st.longestStreak
    IN [st EXCEPT !.focusTimeAccumulated = credited, !.longestStreak = longest,
                  !.isFocusing = FALSE, !.focusTimeStart = Null]

\* pauseFocus(): the state it leaves
pauseFocusState(st, t) ==
    LET credited == IF st.focusTimeStart # Null
                    THEN st.focusTimeAccumulated + (t - st.focusTimeStart)
                    ELSE st.focusTimeAccumulated
        streak == getCurrentStreakMs(st, t)
        longest == IF st.focusTimeStart # Null /\ streak > st.longestStreak
                   THEN streak ELSE st.longestStreak
    IN [st EXCEPT !.focusTimeAccumulated = credited, !.longestStreak = longest,
                  !.isFocusing = FALSE, !.focusTimeStart = Null,
                  !.currentStreakStart = Null]

\* resetFocus that keeps the longest streak
resetFocusState_keepsLongest(st) ==
    [st EXCEPT !.focusTimeAccumulated = 0, !.focusTimeStart = Null,
               !.isFocusing = FALSE, !.focusSessions = 0,
               !.currentStreakStart = Null]

\* resetFocus() once confirmed: the state it leaves
resetFocusState(st) ==
    [st EXCEPT !.focusTimeAccumulated = 0, !.focusTimeStart = Null,
               !.isFocusing = FALSE, !.focusSessions = 0,
               !.longestStreak = 0, !.currentStreakStart = Null]

\* PresenceDetector.getAwayTime()
getAwayTime(p, t) ==
    IF Truthy(p.awayStartTime) THEN p.totalAwayTime + (t - p.awayStartTime)
    ELSE p.totalAwayTime

\* ProductivityDatabase.saveDailyStats(stats): the record it puts
dailyData(stats, t) ==
    [date |-> isoDateKey(t),
     localDate |-> toDateString(t),
     focusTimeMs |-> OrZero(stats.focusTime),
     realTimeMs |-> OrZero(stats.realTime),
     productivity |-> stats.productivity,
     sessions |-> OrZero(stats.sessions),
     longestStreak |-> OrZero(stats.longestStreak),
     awayTime |-> OrZero(stats.awayTime),
     moodHistory |-> <<>>,
     updatedAt |-> t]

\* put that adds the focus time of the record it replaces
put_sums(store, data) ==
    [k \in DOMAIN store \cup {data.date} |->
        IF k = data.date
        THEN IF k \in DOMAIN store
             THEN [data EXCEPT !.focusTimeMs = @ + store[k].focusTimeMs]
             ELSE data
        ELSE store[k]]

\* ProductivityDatabase.put('dailyStats', data): upsert on the key path 'date'
put(store, data) ==
    [k \in DOMAIN store \cup {data.date} |->
        IF k = data.date THEN data ELSE store[k]]

\* saveToDatabase(): the store it leaves
saveToDatabase(st, p, store, t) ==
    IF ~hasDb THEN store ELSE
    LET stats == [focusTime |-> getFocusTimeMs(st, t),
                  realTime |-> getRealTimeMs(st, t),
                  productivity |-> Percent(getFocusTimeMs(st, t), getRealTimeMs(st, t)),
                  sessions |-> st.focusSessions,
                  longestStreak |-> st.longestStreak,
                  awayTime |-> getAwayTime(p, t)]
    IN put(store, dailyData(stats, t))

\* beforeunload handler: the state it leaves
beforeUnloadState(st, t) ==
    IF st.isFocusing
    THEN [st EXCEPT !.focusTimeAccumulated = @ + (t - st.focusTimeStart)]
    ELSE st

\* --------------------------------------------------- focus interval history
NoHist == [pure |-> FALSE, started |-> 0, openAt |-> Null, closed |-> <<>>]

HistStart(h, t) ==
    IF h.pure THEN [h EXCEPT !.started = @ + 1, !.openAt = t] ELSE h

HistPause(h, t) ==
    IF h.pure /\ h.openAt # Null
    THEN [h EXCEPT !.closed = Append(@, t - h.openAt), !.openAt = Null]
    ELSE h

RECURSIVE SumSeq(_)
SumSeq(s) == IF s = <<>> THEN 0 ELSE Head(s) + SumSeq(Tail(s))

RECURSIVE MaxSeq(_)
MaxSeq(s) == IF s = <<>> THEN 0
             ELSE IF Head(s) >= MaxSeq(Tail(s)) THEN Head(s) ELSE MaxSeq(Tail(s))

\* ------------------------------------------------------- component states
PresenceInit ==
    [isPresent |-> FALSE, lastSeenTime |-> Null, awayStartTime |-> Null,
     totalAwayTime |-> 0]

getDurationForPhase(phase) ==
    CASE phase = "work" -> WorkDuration
      [] phase = "shortBreak" -> ShortBreakDuration
      [] phase = "longBreak" -> LongBreakDuration
      [] OTHER -> WorkDuration

PomodoroInit ==
    [isRunning |-> FALSE, isPaused |-> FALSE, currentPhase |-> "work",
     timeRemaining |-> WorkDuration, completedPomodoros |-> 0,
     totalPomodorosToday |-> 0,
     startTime |-> Null, pausedTime |-> Null,
     timerInterval |-> FALSE, liveIntervals |-> 0, timeouts |-> <<>>]

\* ------------------------------------------------------------------- Init
\* the first page load, on an empty localStorage and an empty database
InitPage ==
    /\ now = StartTime
    /\ page = "open"
    /\ state = loadState(ConstructorState, NoSlot, StartTime)
    /\ storage = loadStateSlot(ConstructorState, NoSlot, StartTime)
    /\ db = <<>>
    /\ presence = PresenceInit
    /\ returnCheckStart = Null
    /\ pomodoro = PomodoroInit
    /\ lastOp = "load"
    /\ fired = "none"
    /\ input = "none"
    /\ result = NoResult
    /\ thrown = FALSE
    /\ prev = ConstructorState
    /\ hist = [pure |-> TRUE, started |-> 0, openAt |-> Null, closed |-> <<>>]

\* ---------------------------------------------------- tracker operations
\* startFocus that does not call saveState()
startFocus_noSave ==
    /\ state' = startFocusState(state, now)
    /\ hist' = HistStart(hist, now)
    /\ UNCHANGED <<storage, db>>

\* startFocus(): state change and saveState()
startFocus ==
    /\ state' = startFocusState(state, now)
    /\ storage' = saveState(state')
    /\ hist' = HistStart(hist, now)
    /\ UNCHANGED db

\* pauseFocus that does not call saveToDatabase()
pauseFocus_noFlush ==
    /\ state' = pauseFocusState(state, now)
    /\ storage' = saveState(state')
    /\ hist' = HistPause(hist, now)
    /\ UNCHANGED db

\* pauseFocus(): state change, saveState() and saveToDatabase()
pauseFocus ==
    /\ state' = pauseFocusState(state, now)
    /\ storage' = saveState(state')
    /\ db' = saveToDatabase(state', presence', db, now)
    /\ hist' = HistPause(hist, now)

\* resetFocus() past its confirmation: state change and saveState()
resetFocus ==
    /\ state' = resetFocusState(state)
    /\ storage' = saveState(state')
    /\ hist' = NoHist
    /\ UNCHANGED db

\* a handler that leaves the tracker alone
trackerIdle == UNCHANGED <<state, storage, db, hist>>

Step(op) ==
    /\ page = "open"
    /\ lastOp' = op
    /\ prev' = state
    /\ thrown' = FALSE
    /\ UNCHANGED <<now, page, hasDb, result>>

\* the clock advances between handlers
Clock ==
    /\ now < MaxTime
    /\ now' = now + 1
    /\ lastOp' = "clock"
    /\ prev' = state
    /\ thrown' = FALSE
    /\ fired' = "none"
    /\ input' = "none"
    /\ UNCHANGED <<page, hasDb, result, state, storage, db, presence, returnCheckStart,
                   pomodoro, hist>>

\* toggleFocus that starts only while the user is present
ToggleFocus_whenPresent ==
    /\ Step("toggleFocus")
    /\ fired' = "none"
    /\ input' = "none"
    /\ UNCHANGED <<presence, returnCheckStart, pomodoro>>
    /\ IF state.isFocusing
       THEN pauseFocus
       ELSE IF presence.isPresent
            THEN state.focusSessions < MaxSessions /\ startFocus
            ELSE trackerIdle

\* click on startPauseBtn / Space key: toggleFocus()
ToggleFocus ==
    /\ Step("toggleFocus")
    /\ fired' = "none"
    /\ input' = "none"
    /\ UNCHANGED <<presence, returnCheckStart, pomodoro>>
    /\ IF state.isFocusing
       THEN pauseFocus
       ELSE state.focusSessions < MaxSessions /\ startFocus

\* click on resetBtn / Ctrl+R: resetFocus(), with the answer of confirm()
ResetFocus ==
    /\ Step("resetFocus")
    /\ \E confirmed \in BOOLEAN :
          IF state.focusTimeAccumulated > 0 \/ state.isFocusing
          THEN /\ input' = IF confirmed THEN "yes" ELSE "no"
               /\ IF confirmed THEN resetFocus ELSE trackerIdle
          ELSE /\ input' = "notAsked"
               /\ resetFocus
    /\ fired' = "none"
    /\ UNCHANGED <<presence, returnCheckStart, pomodoro>>

\* a tick that credits the running interval and restarts it
Tick_commits ==
    /\ Step("tick")
    /\ fired' = "none"
    /\ input' = "none"
    /\ state' = IF state.isFocusing
                THEN [state EXCEPT !.focusTimeAccumulated = @ + (now - state.focusTimeStart),
                                   !.focusTimeStart = now]
                ELSE state
    /\ UNCHANGED <<storage, db, hist, presence, returnCheckStart, pomodoro>>

\* the 100 ms display timer: tick()
Tick ==
    /\ Step("tick")
    /\ fired' = "none"
    /\ input' = "none"
    /\ trackerIdle
    /\ UNCHANGED <<presence, returnCheckStart, pomodoro>>

\* a periodic save that commits the running streak to longestStreak
AutoSave_commitsStreak ==
    /\ Step("autoSave")
    /\ state' = IF getCurrentStreakMs(state, now) > state.longestStreak
                THEN [state EXCEPT !.longestStreak = getCurrentStreakMs(state, now)]
                ELSE state
    /\ db' = saveToDatabase(state', presence, db, now)
    /\ fired' = "none"
    /\ input' = "none"
    /\ UNCHANGED <<storage, hist, presence, returnCheckStart, pomodoro>>

\* the 5 minute timer: saveToDatabase()
AutoSave ==
    /\ Step("autoSave")
    /\ db' = saveToDatabase(state, presence, db, now)
    /\ fired' = "none"
    /\ input' = "none"
    /\ UNCHANGED <<state, storage, hist, presence, returnCheckStart, pomodoro>>

\* onAway with its guard inverted
onAway_inverted ==
    IF ~state.isFocusing THEN pauseFocus ELSE trackerIdle

\* PresenceDetector.onAway as wired in the DOMContentLoaded handler (both the
\* original callback and its photo-capture override act alike on the tracker)
onAway ==
    IF state.isFocusing THEN pauseFocus ELSE trackerIdle

\* onReturn without its guard
onReturn_unguarded ==
    state.focusSessions < MaxSessions /\ startFocus

\* PresenceDetector.onReturn as wired in the DOMContentLoaded handler
onReturn ==
    IF ~state.isFocusing
    THEN state.focusSessions < MaxSessions /\ startFocus
    ELSE trackerIdle

\* handleAway that leaves isPresent set
handleAwayState_staysPresent(p, t) ==
    IF p.isPresent THEN [p EXCEPT !.awayStartTime = t] ELSE p

\* PresenceDetector.handleAway(): the detector state it leaves
handleAwayState(p, t) ==
    IF p.isPresent THEN [p EXCEPT !.isPresent = FALSE, !.awayStartTime = t] ELSE p

\* handleReturn that leaves awayStartTime set
handleReturnState_keepsAwayStart(p, t) ==
    IF ~p.isPresent
    THEN [p EXCEPT !.isPresent = TRUE,
                   !.totalAwayTime = IF Truthy(p.awayStartTime)
                                     THEN @ + (t - p.awayStartTime) ELSE @]
    ELSE p

\* PresenceDetector.handleReturn(): the detector state it leaves
handleReturnState(p, t) ==
    IF ~p.isPresent
    THEN [p EXCEPT !.isPresent = TRUE,
                   !.totalAwayTime = IF Truthy(p.awayStartTime)
                                     THEN @ + (t - p.awayStartTime) ELSE @,
                   !.awayStartTime = IF Truthy(p.awayStartTime) THEN Null ELSE @]
    ELSE p

\* awayElapsed on the first sample without a face
awayElapsed_noThreshold(p, t) ==
    p.isPresent /\ Truthy(p.lastSeenTime)

\* onResults: has the face been missing for awayThreshold
awayElapsed(p, t) ==
    p.isPresent /\ Truthy(p.lastSeenTime) /\ t - p.lastSeenTime >= AwayThreshold

\* returnElapsed on the second sample with a face
returnElapsed_noThreshold(rcs, t) == t - rcs >= 0

\* onResults: has the face been back for returnThreshold
returnElapsed(rcs, t) == t - rcs >= ReturnThreshold

\* PresenceDetector.onResults(results): one face-detection sample
OnResults ==
    /\ Step("onResults")
    /\ UNCHANGED pomodoro
    /\ \E faceDetected \in BOOLEAN :
          /\ input' = IF faceDetected THEN "face" ELSE "noFace"
          /\ IF faceDetected
             THEN LET seen == [presence EXCEPT !.lastSeenTime = now] IN
                  IF ~seen.isPresent
                  THEN IF ~Truthy(returnCheckStart)
                       THEN /\ returnCheckStart' = now
                            /\ presence' = seen
                            /\ fired' = "none"
                            /\ trackerIdle
                       ELSE IF returnElapsed(returnCheckStart, now)
                       THEN /\ returnCheckStart' = Null
                            /\ presence' = handleReturnState(seen, now)
                            /\ fired' = "onReturn"
                            /\ onReturn
                       ELSE /\ UNCHANGED returnCheckStart
                            /\ presence' = seen
                            /\ fired' = "none"
                            /\ trackerIdle
                  ELSE /\ UNCHANGED returnCheckStart
                       /\ presence' = seen
                       /\ fired' = "none"
                       /\ trackerIdle
             ELSE /\ returnCheckStart' = Null
                  /\ IF awayElapsed(presence, now)
                     THEN /\ presence' = handleAwayState(presence, now)
                          /\ fired' = "onAway"
                          /\ onAway
                     ELSE /\ UNCHANGED presence
                          /\ fired' = "none"
                          /\ trackerIdle

\* MoodDetector onDrowsy callback
OnDrowsy ==
    /\ Step("onDrowsy")
    /\ fired' = "none"
    /\ input' = "none"
    /\ UNCHANGED <<presence, returnCheckStart, pomodoro>>
    /\ IF state.isFocusing THEN pauseFocus ELSE trackerIdle

\* PhoneDetector onPhoneDetected callback
OnPhoneDetected ==
    /\ Step("onPhoneDetected")
    /\ fired' = "none"
    /\ input' = "none"
    /\ UNCHANGED <<presence, returnCheckStart, pomodoro>>
    /\ IF state.isFocusing THEN pauseFocus ELSE trackerIdle

\* ------------------------------------------------------------ PomodoroTimer
\* clearInterval(this.timerInterval); this.timerInterval = null: the interval
\* whose handle the timer holds, if any, stops ticking
clearTimerInterval(pm) ==
    [pm EXCEPT !.liveIntervals = IF pm.timerInterval THEN @ - 1 ELSE @,
               !.timerInterval = FALSE]

\* pause that leaves its interval ticking
pomodoroPause_keepsInterval(pm) ==
    IF ~pm.isRunning THEN pm
    ELSE [pm EXCEPT !.isRunning = FALSE, !.isPaused = TRUE,
                    !.pausedTime = pm.timeRemaining]

\* PomodoroTimer.pause(): the timer state it leaves
pomodoroPause(pm) ==
    IF ~pm.isRunning THEN pm
    ELSE clearTimerInterval([pm EXCEPT !.isRunning = FALSE, !.isPaused = TRUE,
                                       !.pausedTime = pm.timeRemaining])

\* PomodoroTimer.start(): the timer state it leaves
pomodoroStart(pm, t) ==
    IF pm.isRunning THEN pm
    ELSE [pm EXCEPT !.isRunning = TRUE, !.isPaused = FALSE, !.startTime = t,
                    !.timerInterval = TRUE, !.liveIntervals = @ + 1]

\* start() calling startFocus() whatever the phase
pomodoroStartsFocus_anyPhase(pm, st) ==
    ~pm.isRunning /\ ~st.isFocusing

\* PomodoroTimer.start(): does it call window.tracker.startFocus()
pomodoroStartsFocus(pm, st) ==
    ~pm.isRunning /\ pm.currentPhase = "work" /\ ~st.isFocusing

\* click on pomodoroStartBtn: toggleTimer()
PomodoroToggle ==
    /\ Step("pomodoroToggle")
    /\ fired' = "none"
    /\ input' = "none"
    /\ UNCHANGED <<presence, returnCheckStart>>
    /\ IF pomodoro.isRunning
       THEN /\ pomodoro' = pomodoroPause(pomodoro)
            /\ trackerIdle
       ELSE /\ pomodoro' = pomodoroStart(pomodoro, now)
            /\ IF pomodoroStartsFocus(pomodoro, state)
               THEN state.focusSessions < MaxSessions /\ startFocus
               ELSE trackerIdle

\* PomodoroTimer.setPhase(phase): the timer state it leaves
pomodoroSetPhase(pm, phase) ==
    [pomodoroPause(pm) EXCEPT !.currentPhase = phase,
                              !.timeRemaining = getDurationForPhase(phase),
                              !.startTime = Null, !.pausedTime = Null]

\* PomodoroTimer.reset(): the timer state it leaves
pomodoroReset(pm) ==
    [pomodoroPause(pm) EXCEPT !.timeRemaining = getDurationForPhase(pm.currentPhase),
                              !.startTime = Null, !.pausedTime = Null]

\* completePhase that takes the long break after every work phase but the
\* longBreakInterval-th
completePhase_longBreakElse(pm, t) ==
    LET stopped == [clearTimerInterval(pm) EXCEPT !.isRunning = FALSE] IN
    IF pm.currentPhase = "work"
    THEN LET counted == [stopped EXCEPT !.completedPomodoros = @ + 1,
                                         !.totalPomodorosToday = @ + 1]
             next == IF counted.completedPomodoros % LongBreakInterval = 0
                     THEN "shortBreak" ELSE "longBreak"
         IN [pomodoroSetPhase(counted, next) EXCEPT
                !.timeouts = Append(@, t + AutoStartDelay)]
    ELSE pomodoroSetPhase(stopped, "work")

\* PomodoroTimer.completePhase(): the timer state it leaves; with
\* autoStartBreaks the end of a work phase queues setTimeout(start, 1000),
\* and with autoStartWork off the end of a break queues nothing
completePhase(pm, t) ==
    LET stopped == [clearTimerInterval(pm) EXCEPT !.isRunning = FALSE] IN
    IF pm.currentPhase = "work"
    THEN LET counted == [stopped EXCEPT !.completedPomodoros = @ + 1,
                                         !.totalPomodorosToday = @ + 1]
             next == IF counted.completedPomodoros % LongBreakInterval = 0
                     THEN "longBreak" ELSE "shortBreak"
         IN [pomodoroSetPhase(counted, next) EXCEPT
                !.timeouts = Append(@, t + AutoStartDelay)]
    ELSE pomodoroSetPhase(stopped, "work")

\* PomodoroTimer.tick(): the time it computes as remaining
tickRemaining(pm, t) ==
    LET elapsed == t - pm.startTime
        startDuration == IF Truthy(pm.pausedTime) THEN pm.pausedTime
                         ELSE getDurationForPhase(pm.currentPhase)
    IN IF startDuration - elapsed > 0 THEN startDuration - elapsed ELSE 0

\* a timer method that pauses the tracker
pomodoroTracker_pauses ==
    IF state.isFocusing THEN pauseFocus ELSE trackerIdle

\* what every PomodoroTimer method but start() does to the tracker: nothing
pomodoroTracker == trackerIdle

\* click on a phase button: setPhase(phase)
PomodoroSetPhase ==
    /\ Step("pomodoroSetPhase")
    /\ fired' = "none"
    /\ input' = "none"
    /\ UNCHANGED <<presence, returnCheckStart>>
    /\ \E phase \in {"work", "shortBreak", "longBreak"} :
          pomodoro' = pomodoroSetPhase(pomodoro, phase)
    /\ pomodoroTracker

\* click on pomodoroResetBtn: reset()
PomodoroReset ==
    /\ Step("pomodoroReset")
    /\ fired' = "none"
    /\ input' = "none"
    /\ UNCHANGED <<presence, returnCheckStart>>
    /\ pomodoro' = pomodoroReset(pomodoro)
    /\ pomodoroTracker

\* click on pomodoroSkipBtn: skip()
PomodoroSkip ==
    /\ Step("pomodoroSkip")
    /\ fired' = "none"
    /\ input' = "none"
    /\ UNCHANGED <<presence, returnCheckStart>>
    /\ pomodoro.currentPhase = "work" => pomodoro.completedPomodoros < MaxPomodoros
    /\ pomodoro' = completePhase(pomodoro, now)
    /\ pomodoroTracker

\* the 100 ms interval of a running timer: tick()
PomodoroTick ==
    /\ Step("pomodoroTick")
    /\ fired' = "none"
    /\ input' = "none"
    /\ UNCHANGED <<presence, returnCheckStart>>
    /\ pomodoro.liveIntervals > 0
    /\ IF ~pomodoro.isRunning
       THEN UNCHANGED pomodoro
       ELSE LET ticked == [pomodoro EXCEPT !.timeRemaining = tickRemaining(pomodoro, now)]
            IN IF ticked.timeRemaining <= 0
               THEN /\ pomodoro.currentPhase = "work"
                        => pomodoro.completedPomodoros < MaxPomodoros
                    /\ pomodoro' = completePhase(ticked, now)
               ELSE pomodoro' = ticked
    /\ pomodoroTracker

\* the setTimeout(() => this.start(), 1000) queued by completePhase() comes due
PomodoroAutoStart ==
    /\ Step("pomodoroAutoStart")
    /\ fired' = "none"
    /\ input' = "none"
    /\ UNCHANGED <<presence, returnCheckStart>>
    /\ pomodoro.timeouts # <<>>
    /\ now >= Head(pomodoro.timeouts)
    /\ pomodoro' = [pomodoroStart(pomodoro, now) EXCEPT !.timeouts = Tail(@)]
    /\ IF pomodoroStartsFocus(pomodoro, state)
       THEN state.focusSessions < MaxSessions /\ startFocus
       ELSE trackerIdle

\* ------------------------------------------------------- page life cycle
\* a beforeunload handler that credits the running interval in memory only
BeforeUnload_noSave ==
    /\ page = "open"
    /\ page' = "closed"
    /\ lastOp' = "beforeUnload"
    /\ prev' = state
    /\ thrown' = FALSE
    /\ fired' = "none"
    /\ input' = "none"
    /\ state' = beforeUnloadState(state, now)
    /\ db' = saveToDatabase(state', presence, db, now)
    /\ UNCHANGED <<now, hasDb, result, storage, presence, returnCheckStart, pomodoro, hist>>

\* beforeunload handler, after which the document is gone
BeforeUnload ==
    /\ page = "open"
    /\ page' = "closed"
    /\ lastOp' = "beforeUnload"
    /\ prev' = state
    /\ thrown' = FALSE
    /\ fired' = "none"
    /\ input' = "none"
    /\ state' = beforeUnloadState(state, now)
    /\ storage' = IF state.isFocusing THEN saveState(state') ELSE storage
    /\ db' = saveToDatabase(state', presence, db, now)
    /\ UNCHANGED <<now, hasDb, result, presence, returnCheckStart, pomodoro, hist>>

\* a kill before which the running interval is credited and saved
Kill_credits ==
    /\ page = "open"
    /\ page' = "closed"
    /\ lastOp' = "kill"
    /\ prev' = state
    /\ thrown' = FALSE
    /\ fired' = "none"
    /\ input' = "none"
    /\ state' = beforeUnloadState(state, now)
    /\ storage' = saveState(state')
    /\ UNCHANGED <<now, hasDb, result, db, presence, returnCheckStart, pomodoro, hist>>

\* the tab is killed: no handler runs
Kill ==
    /\ page = "open"
    /\ page' = "closed"
    /\ lastOp' = "kill"
    /\ prev' = state
    /\ thrown' = FALSE
    /\ fired' = "none"
    /\ input' = "none"
    /\ UNCHANGED <<now, hasDb, result, state, storage, db, presence, returnCheckStart,
                   pomodoro, hist>>

\* DOMContentLoaded: new ProductivityTracker() (constructor, init, loadState,
\* updateUI), new PresenceDetector, new PomodoroTimer
Load ==
    /\ page = "closed"
    /\ page' = "open"
    /\ lastOp' = "load"
    /\ prev' = state
    /\ thrown' = FALSE
    /\ fired' = "none"
    /\ input' = "none"
    /\ state' = loadState(ConstructorState, storage, now)
    /\ storage' = loadStateSlot(ConstructorState, storage, now)
    /\ presence' = PresenceInit
    /\ returnCheckStart' = Null
    /\ pomodoro' = PomodoroInit
    /\ hist' = NoHist
    /\ UNCHANGED <<now, db, hasDb, result>>

\* The handlers of the manual controls, the page timers, the mood and phone
\* detectors and the page life cycle.
NextCore ==
    \/ Clock
    \/ ToggleFocus
    \/ ResetFocus
    \/ Tick
    \/ AutoSave
    \/ OnDrowsy
    \/ OnPhoneDetected
    \/ BeforeUnload
    \/ Kill
    \/ Load

\* With the camera samples and the Pomodoro start button.
Next ==
    \/ NextCore
    \/ OnResults
    \/ PomodoroToggle

\* With the Pomodoro phase buttons as well.
NextTimer ==
    \/ Next
    \/ PomodoroSetPhase

\* The page without IndexedDB (ProductivityDatabase not loaded: saveToDatabase
\* returns at its first line).  The store is written and never read by the
\* tracker, the detectors or the timer, so their behaviour is the same with it.
Init == InitPage /\ hasDb = FALSE

Spec == Init /\ [][Next]_vars

SpecTimer == Init /\ [][NextTimer]_vars

\* The page with IndexedDB.
InitDb == InitPage /\ hasDb = TRUE

SpecDb == InitDb /\ [][NextCore]_vars

\* The page with IndexedDB and the camera samples: every handler that pauses,
\* the manual start, the autosave and the page life cycle.
NextPresence ==
    \/ Clock
    \/ ToggleFocus
    \/ OnResults
    \/ OnDrowsy
    \/ OnPhoneDetected
    \/ AutoSave
    \/ BeforeUnload
    \/ Kill
    \/ Load

SpecPresence == InitDb /\ [][NextPresence]_vars

\* ----------------------------------------------- several away intervals
\* the clock over a horizon in which the user can leave and return twice
ClockLong ==
    /\ now < MaxAwayTime
    /\ now' = now + 1
    /\ lastOp' = "clock"
    /\ prev' = state
    /\ thrown' = FALSE
    /\ fired' = "none"
    /\ input' = "none"
    /\ UNCHANGED <<page, hasDb, result, state, storage, db, presence, returnCheckStart,
                   pomodoro, hist>>

\* The camera samples and the page life cycle.
NextAway ==
    \/ ClockLong
    \/ OnResults
    \/ Kill
    \/ Load

SpecAway == Init /\ [][NextAway]_vars

\* With IndexedDB and the autosave.
NextAwayDb ==
    \/ NextAway
    \/ AutoSave

SpecAwayDb == InitDb /\ [][NextAwayDb]_vars

\* ------------------------------------------------- direct calls of the API
\* window.tracker.startFocus() called directly, whatever the focus state
CallStartFocus ==
    /\ Step("startFocus")
    /\ fired' = "none"
    /\ input' = "none"
    /\ UNCHANGED <<presence, returnCheckStart, pomodoro>>
    /\ state.focusSessions < MaxSessions
    /\ startFocus

\* window.tracker.pauseFocus() called directly, whatever the focus state
CallPauseFocus ==
    /\ Step("pauseFocus")
    /\ fired' = "none"
    /\ input' = "none"
    /\ UNCHANGED <<presence, returnCheckStart, pomodoro>>
    /\ pauseFocus

NextApi ==
    \/ NextCore
    \/ CallStartFocus
    \/ CallPauseFocus

SpecApi == Init /\ [][NextApi]_vars

\* ------------------------------------------------ a clock that is set back
\* the system clock is set back between two handlers (time synchronisation,
\* a manual change): Date.now() reads less than it did
ClockBack ==
    /\ now > 0
    /\ now' = now - 1
    /\ lastOp' = "clockBack"
    /\ prev' = state
    /\ thrown' = FALSE
    /\ fired' = "none"
    /\ input' = "none"
    /\ UNCHANGED <<page, hasDb, result, state, storage, db, presence, returnCheckStart,
                   pomodoro, hist>>

NextSkew ==
    \/ NextCore
    \/ ClockBack

SpecSkew == Init /\ [][NextSkew]_vars

\* ------------------------------------------------- writes that fail
\* A handler frame for a write that fails: localStorage.setItem throws (quota
\* exceeded, storage disabled) or the IndexedDB put rejects.
StepFails(op, write) ==
    /\ page = "open"
    /\ lastOp' = op
    /\ prev' = state
    /\ input' = write
    /\ fired' = "none"
    /\ UNCHANGED <<now, page, hasDb, result, presence, returnCheckStart, pomodoro>>

\* toggleFocus() while a write fails.  saveState() has no try / catch: its
\* exception leaves startFocus / pauseFocus after the state assignments and
\* before saveToDatabase().  saveToDatabase() catches the rejection of put.
ToggleFocusWriteFails ==
    \/ /\ StepFails("toggleFocus", "slotWriteFails")
       /\ IF state.isFocusing
          THEN /\ state' = pauseFocusState(state, now)
               /\ hist' = HistPause(hist, now)
          ELSE /\ state.focusSessions < MaxSessions
               /\ state' = startFocusState(state, now)
               /\ hist' = HistStart(hist, now)
       /\ thrown' = TRUE
       /\ UNCHANGED <<storage, db>>
    \/ /\ StepFails("toggleFocus", "dbWriteFails")
       /\ hasDb
       /\ state.isFocusing
       /\ state' = pauseFocusState(state, now)
       /\ hist' = HistPause(hist, now)
       /\ storage' = saveState(state')
       /\ thrown' = FALSE
       /\ UNCHANGED db

\* resetFocus() past its confirmation while saveState() throws
ResetFocusWriteFails ==
    /\ StepFails("resetFocus", "slotWriteFails")
    /\ state' = resetFocusState(state)
    /\ hist' = NoHist
    /\ thrown' = TRUE
    /\ UNCHANGED <<storage, db>>

\* the 5 minute timer while the put of saveDailyStats rejects: caught
AutoSaveWriteFails ==
    /\ StepFails("autoSave", "dbWriteFails")
    /\ hasDb
    /\ thrown' = FALSE
    /\ UNCHANGED <<state, storage, db, hist>>

\* beforeunload of a Focusing tracker while saveState() throws: the handler
\* ends before saveToDatabase()
BeforeUnloadWriteFails ==
    /\ page = "open"
    /\ state.isFocusing
    /\ page' = "closed"
    /\ lastOp' = "beforeUnload"
    /\ prev' = state
    /\ input' = "slotWriteFails"
    /\ fired' = "none"
    /\ thrown' = TRUE
    /\ state' = beforeUnloadState(state, now)
    /\ UNCHANGED <<now, hasDb, result, storage, db, presence, returnCheckStart,
                   pomodoro, hist>>

\* DOMContentLoaded while saveState() throws: when loadState() has nothing to
\* restore, resetForNewDay() throws out of the constructor, window.tracker
\* stays undefined and the handler ends: no tracker, no detector, no timer, no
\* event listener, which is the page of "closed"
LoadWriteFails ==
    /\ page = "closed"
    /\ loadStateSlot(ConstructorState, storage, now) # storage
    /\ lastOp' = "load"
    /\ prev' = state
    /\ input' = "slotWriteFails"
    /\ fired' = "none"
    /\ thrown' = TRUE
    /\ state' = resetForNewDay(ConstructorState, now)
    /\ presence' = PresenceInit
    /\ returnCheckStart' = Null
    /\ pomodoro' = PomodoroInit
    /\ hist' = NoHist
    /\ UNCHANGED <<now, page, hasDb, result, storage, db>>

\* The manual controls and the page life cycle, each with its writes
\* succeeding or failing.
NextQuota ==
    \/ Clock
    \/ ToggleFocus
    \/ ResetFocus
    \/ BeforeUnload
    \/ Kill
    \/ Load
    \/ ToggleFocusWriteFails
    \/ ResetFocusWriteFails
    \/ AutoSaveWriteFails
    \/ BeforeUnloadWriteFails
    \/ LoadWriteFails

SpecQuota == InitDb /\ [][NextQuota]_vars

\* ------------------------------------------------- a corrupt session slot
\* the blobs that are not what saveState() writes: text that does not parse,
\* a day start that is missing or invalid, and a day start of today with
\* counters that are missing (Null), negative or not numbers
CorruptBlobs(t) ==
    LET today == {[realTimeStart |-> toISOString(t), focusTimeAccumulated |-> a,
                   focusSessions |-> n, longestStreak |-> l] :
                      a \in {NonNumeric, 0 - 2, Null, 1},
                      n \in {NonNumeric, Null, 1},
                      l \in {NonNumeric, Null, 1}}
        sound == [realTimeStart |-> toISOString(t), focusTimeAccumulated |-> 1,
                  focusSessions |-> 1, longestStreak |-> 1]
    IN {Unparseable, [sound EXCEPT !.realTimeStart = InvalidDate]}
          \cup (today \ {sound})

\* localStorage['focusRatioState'] is overwritten from outside the tracker
\* (another script of the origin, the developer tools, an interrupted write)
\* while no page is open
CorruptStorage ==
    /\ page = "closed"
    /\ storage' \in CorruptBlobs(now)
    /\ lastOp' = "corruptStorage"
    /\ prev' = state
    /\ thrown' = FALSE
    /\ fired' = "none"
    /\ input' = "none"
    /\ UNCHANGED <<now, page, hasDb, result, state, db, presence, returnCheckStart,
                   pomodoro, hist>>

\* The page life cycle and the display timer: no handler that computes with
\* the restored counters.
NextCorrupt ==
    \/ Clock
    \/ Tick
    \/ Kill
    \/ CorruptStorage
    \/ Load

SpecCorrupt == Init /\ [][NextCorrupt]_vars

\* ------------------------------------------- the camera cannot be started
\* window.pomodoroTimer when new PomodoroTimer() was never reached
NoPomodoro == [absent |-> TRUE]

\* DOMContentLoaded while presenceDetector.init() rejects: the tracker and the
\* database are up, the catch block shows 'Camera Error', and the rest of the
\* try block (photo capture, mood and phone detector, the Pomodoro timer) is
\* skipped
LoadCameraFails ==
    /\ page = "closed"
    /\ page' = "open"
    /\ lastOp' = "load"
    /\ prev' = state
    /\ thrown' = FALSE
    /\ fired' = "none"
    /\ input' = "cameraFails"
    /\ state' = loadState(ConstructorState, storage, now)
    /\ storage' = loadStateSlot(ConstructorState, storage, now)
    /\ presence' = PresenceInit
    /\ returnCheckStart' = Null
    /\ pomodoro' = NoPomodoro
    /\ hist' = NoHist
    /\ UNCHANGED <<now, db, hasDb, result>>

\* the first page load with a camera that cannot be started
InitCameraFails ==
    /\ now = StartTime
    /\ page = "open"
    /\ state = loadState(ConstructorState, NoSlot, StartTime)
    /\ storage = loadStateSlot(ConstructorState, NoSlot, StartTime)
    /\ db = <<>>
    /\ hasDb = TRUE
    /\ presence = PresenceInit
    /\ returnCheckStart = Null
    /\ pomodoro = NoPomodoro
    /\ lastOp = "load"
    /\ fired = "none"
    /\ input = "cameraFails"
    /\ result = NoResult
    /\ thrown = FALSE
    /\ prev = ConstructorState
    /\ hist = [pure |-> TRUE, started |-> 0, openAt |-> Null, closed |-> <<>>]

\* The handlers that are bound on such a page: the manual controls, the page
\* timers and the page life cycle.  No camera sample arrives, and the mood
\* detector, the phone detector and the Pomodoro timer do not exist.
NextCameraFails ==
    \/ Clock
    \/ ToggleFocus
    \/ ResetFocus
    \/ Tick
    \/ AutoSave
    \/ BeforeUnload
    \/ Kill
    \/ LoadCameraFails

SpecCameraFails == InitCameraFails /\ [][NextCameraFails]_vars

\* ------------------------------------------- the whole Pomodoro timer
\* The manual toggle and every control and timer of the PomodoroTimer, on a
\* page that is not reloaded.
NextPomodoro ==
    \/ Clock
    \/ ToggleFocus
    \/ PomodoroToggle
    \/ PomodoroSetPhase
    \/ PomodoroReset
    \/ PomodoroSkip
    \/ PomodoroTick
    \/ PomodoroAutoStart

SpecPomodoro == Init /\ [][NextPomodoro]_vars

\* ------------------------------------------------- ProductivityDatabase queries
\* store.openCursor(): the records in ascending key order
RECURSIVE openCursor(_, _)
openCursor(store, keys) ==
    IF keys = {} THEN <<>>
    ELSE LET k == CHOOSE k \in keys : \A j \in keys : k <= j
         IN <<store[k]>> \o openCursor(store, keys \ {k})

\* Array.prototype.sort((a, b) => a.date.localeCompare(b.date)): stable
\* insertion of each record after the records whose date is not greater
RECURSIVE insertByDate(_, _)
insertByDate(sorted, r) ==
    IF sorted = <<>> THEN <<r>>
    ELSE IF Head(sorted).date <= r.date
         THEN <<Head(sorted)>> \o insertByDate(Tail(sorted), r)
         ELSE <<r>> \o sorted

RECURSIVE sortByDate(_)
sortByDate(rs) ==
    IF rs = <<>> THEN <<>>
    ELSE insertByDate(sortByDate(SubSeq(rs, 1, Len(rs) - 1)), rs[Len(rs)])

\* the cursor filter of getStatsRange
InRange(r, startDate, endDate) == r.date >= startDate /\ r.date <= endDate

\* getStatsRange leaving the end date out
getStatsRange_exclusiveEnd(store, startDate, endDate) ==
    LET InRangeX(r) == r.date >= startDate /\ r.date < endDate
    IN sortByDate(SelectSeq(openCursor(store, DOMAIN store), InRangeX))

\* ProductivityDatabase.getStatsRange(startDate, endDate)
getStatsRange(store, startDate, endDate) ==
    LET InRangeX(r) == InRange(r, startDate, endDate)
    IN sortByDate(SelectSeq(openCursor(store, DOMAIN store), InRangeX))

\* Date.prototype.setDate(getDate() + delta): the same local time of day on
\* the local calendar day delta days later
setDate(t, delta) ==
    LET localDay == toDateString(t)
        localTime == (t + TzOffset) % DayLen
    IN (localDay + delta) * DayLen + localTime - TzOffset

\* ProductivityDatabase.getLastNDays(n)
getLastNDays(store, n, t) ==
    getStatsRange(store, isoDateKey(setDate(t, 0 - (n - 1))), isoDateKey(t))

\* the record saveDailyStats() put when it was last called on day d
StoredDay(d) ==
    dailyData([focusTime |-> d + 1, realTime |-> DayLen, productivity |-> Percent(d + 1, DayLen),
               sessions |-> 1, longestStreak |-> d + 1, awayTime |-> 0],
              d * DayLen + (DayLen - 1))

\* the store after the page was used on the days of `days`
RECURSIVE StoreOf(_)
StoreOf(days) ==
    IF days = {} THEN <<>>
    ELSE LET d == CHOOSE d \in days : \A j \in days : d >= j
         IN put(StoreOf(days \ {d}), StoredDay(d))

\* a page load on a database that holds the records of some earlier days
InitQuery ==
    /\ now \in 0 .. (QueryDays * DayLen - 1)
    /\ page = "open"
    /\ state = loadState(ConstructorState, NoSlot, now)
    /\ storage = loadStateSlot(ConstructorState, NoSlot, now)
    /\ db \in {StoreOf(days) : days \in SUBSET (0 .. QueryDays - 1)}
    /\ hasDb = TRUE
    /\ presence = PresenceInit
    /\ returnCheckStart = Null
    /\ pomodoro = PomodoroInit
    /\ lastOp = "load"
    /\ fired = "none"
    /\ input = "none"
    /\ result = NoResult
    /\ thrown = FALSE
    /\ prev = ConstructorState
    /\ hist = NoHist

\* a frame for the handlers that only read the database
queryIdle ==
    /\ page = "open"
    /\ prev' = state
    /\ thrown' = FALSE
    /\ fired' = "none"
    /\ input' = "none"
    /\ trackerIdle
    /\ UNCHANGED <<now, page, hasDb, presence, returnCheckStart, pomodoro>>

\* a caller awaits getStatsRange(startDate, endDate)
GetStatsRange ==
    /\ queryIdle
    /\ lastOp' = "getStatsRange"
    /\ \E startDate \in 0 .. QueryDays - 1, endDate \in 0 .. QueryDays - 1 :
          result' = [startDate |-> startDate, endDate |-> endDate,
                     records |-> getStatsRange(db, startDate, endDate)]

\* the analytics dashboard awaits getLastNDays(n)
GetLastNDays ==
    /\ queryIdle
    /\ lastOp' = "getLastNDays"
    /\ \E n \in 1 .. QueryDays :
          result' = [n |-> n, records |-> getLastNDays(db, n, now)]

\* The queries and the 5 minute timer, on the page of InitQuery.
NextQuery ==
    \/ GetStatsRange
    \/ GetLastNDays
    \/ AutoSave

SpecQuery == InitQuery /\ [][NextQuery]_vars

\* =================================================================== claims
SameDay(slot, t) ==
    slot # NoSlot /\ toDateString(parseDate(slot.realTimeStart)) = toDateString(t)

\* C1: startFocus() is idempotent: a call of startFocus() while the tracker is
\* already Focusing leaves focusSessions, focusTimeStart, currentStreakStart and
\* focusTimeAccumulated unchanged.
C1_StartFocusIdempotent ==
    [][(lastOp' = "startFocus" /\ state.isFocusing) =>
          /\ state'.focusSessions = state.focusSessions
          /\ state'.focusTimeStart = state.focusTimeStart
          /\ state'.currentStreakStart = state.currentStreakStart
          /\ state'.focusTimeAccumulated = state.focusTimeAccumulated]_vars

\* C2: pauseFocus() is idempotent: every pauseFocus() leaves the tracker Paused
\* in a state that a further pauseFocus() maps to itself, and a pauseFocus()
\* while already Paused changes no FocusSession field.
C2_PauseFocusIdempotent ==
    [][lastOp' = "pauseFocus" =>
          /\ ~state'.isFocusing
          /\ pauseFocusState(state', now') = state'
          /\ (~state.isFocusing => state' = state)]_vars

\* a pauseFocus() was called on a Paused tracker that holds a credited interval
C2_Witness ==
    /\ lastOp = "pauseFocus"
    /\ ~prev.isFocusing
    /\ prev.focusTimeAccumulated > 0
    /\ state = prev

\* C3: accumulation correctness: with no reset and no reload, once paused,
\* focusTimeAccumulated is the sum of the closed focus intervals, longestStreak
\* is the longest of them and focusSessions is the number of intervals started.
C3_Accumulation ==
    (hist.pure /\ ~state.isFocusing) =>
        /\ state.focusTimeAccumulated = SumSeq(hist.closed)
        /\ state.longestStreak = MaxSeq(hist.closed)
        /\ state.focusSessions = hist.started

\* two intervals were closed, the first the longer one
C3_Witness ==
    /\ hist.pure
    /\ ~state.isFocusing
    /\ Len(hist.closed) = 2
    /\ hist.closed[1] > hist.closed[2]
    /\ hist.closed[2] > 0
    /\ state.longestStreak = hist.closed[1]

\* C4: concurrent trigger collapse: when a Pomodoro work-phase start and a
\* presence onReturn run back to back on a Paused tracker, in either order,
\* focusSessions grows by exactly one and focusTimeStart is the time of the
\* first of the two.
C4_TriggerCollapse ==
    [][(/\ ~prev.isFocusing
        /\ \/ /\ lastOp = "onResults" /\ fired = "onReturn"
              /\ lastOp' = "pomodoroToggle" /\ pomodoro'.isRunning
              /\ pomodoro'.currentPhase = "work"
           \/ /\ lastOp = "pomodoroToggle" /\ pomodoro.isRunning
              /\ pomodoro.currentPhase = "work"
              /\ lastOp' = "onResults" /\ fired' = "onReturn")
       => /\ state'.isFocusing
          /\ state'.focusSessions = prev.focusSessions + 1
          /\ state'.focusTimeStart = now
          /\ now' = now]_vars

\* onReturn fired on a tracker whose only interval was opened in the same
\* instant, in which the Pomodoro work phase was started as well
C4_Witness ==
    /\ lastOp = "onResults" /\ fired = "onReturn"
    /\ prev.isFocusing /\ prev.focusTimeStart = now
    /\ pomodoro.isRunning /\ pomodoro.currentPhase = "work"
    /\ pomodoro.startTime = now
    /\ hist.pure /\ hist.started = 1
    /\ state.focusSessions = 1 /\ state.focusTimeStart = now

\* C5: productivity cap: the displayed percentage and the productivity of every
\* daily record are at most 100.
C5_ProductivityCap ==
    /\ AtMost100(updateProductivity(state, now))
    /\ \A k \in DOMAIN db : AtMost100(db[k].productivity)

\* C6: reload safety: a restore from a blob of the current calendar date leaves
\* the tracker Paused with no open interval.
C6_ReloadSafety ==
    [][(lastOp' = "load" /\ SameDay(storage, now)) =>
          /\ ~state'.isFocusing
          /\ state'.focusTimeStart = Null
          /\ state'.currentStreakStart = Null]_vars

\* a same-day restore of a day whose tab was closed while Focusing
C6_Witness ==
    /\ lastOp = "load"
    /\ prev.isFocusing
    /\ state.realTimeStart < now
    /\ state.realTimeStart = prev.realTimeStart
    /\ state.focusSessions > 0
    /\ ~state.isFocusing

\* C7: day rollover on restore: a restore from a blob of another calendar date
\* zeroes focusTimeAccumulated, focusSessions and longestStreak, leaves the
\* tracker Paused and sets realTimeStart to now.
C7_DayRollover ==
    [][(lastOp' = "load" /\ storage # NoSlot /\ ~SameDay(storage, now)) =>
          /\ state'.focusTimeAccumulated = 0
          /\ state'.focusSessions = 0
          /\ state'.longestStreak = 0
          /\ ~state'.isFocusing
          /\ state'.realTimeStart = now]_vars

\* a restore on the day after a day with credited focus time
C7_Witness ==
    /\ lastOp = "load"
    /\ toDateString(prev.realTimeStart) # toDateString(now)
    /\ prev.focusTimeAccumulated > 0
    /\ prev.longestStreak > 0
    /\ state.realTimeStart = now
    /\ state.focusTimeAccumulated = 0

\* C8: persist / restore round trip: a tracker that persisted its state while
\* Paused and is restored on the same calendar date gets back the
\* focusTimeAccumulated, focusSessions, longestStreak and realTimeStart it held.
C8_RoundTrip ==
    [][(/\ lastOp' = "load"
        /\ ~state.isFocusing
        /\ storage = saveState(state)
        /\ SameDay(storage, now))
       => /\ state'.focusTimeAccumulated = state.focusTimeAccumulated
          /\ state'.focusSessions = state.focusSessions
          /\ state'.longestStreak = state.longestStreak
          /\ state'.realTimeStart = state.realTimeStart]_vars

\* a same-day restore of a Paused tracker with credited focus time
C8_Witness ==
    /\ lastOp = "load"
    /\ ~prev.isFocusing
    /\ prev.focusTimeAccumulated > 0
    /\ prev.realTimeStart % DayLen # 0
    /\ storage = saveState(prev)
    /\ state.realTimeStart = prev.realTimeStart
    /\ state.realTimeStart < now

\* C9: lock-step: isFocusing holds exactly when focusTimeStart is set, and
\* currentStreakStart is set exactly when focusTimeStart is set.
C9_LockStep ==
    /\ state.isFocusing <=> state.focusTimeStart # Null
    /\ state.currentStreakStart # Null <=> state.focusTimeStart # Null

\* Focusing again after a pause in a restored session
C9_Witness ==
    /\ page = "open"
    /\ ~hist.pure
    /\ state.isFocusing
    /\ state.focusTimeStart # Null
    /\ state.currentStreakStart # Null
    /\ state.focusTimeAccumulated > 0

\* C10: presence arbitration: onAway while Focusing pauses and credits the open
\* interval up to now, onAway while Paused changes nothing; onReturn while
\* Paused starts focus and counts one more session, onReturn while Focusing
\* changes nothing.
C10_PresenceArbitration ==
    [][/\ (fired' = "onAway" /\ state.isFocusing) =>
             /\ ~state'.isFocusing
             /\ state'.focusTimeStart = Null
             /\ state'.focusTimeAccumulated =
                   state.focusTimeAccumulated + (now - state.focusTimeStart)
             /\ state'.focusSessions = state.focusSessions
       /\ (fired' = "onAway" /\ ~state.isFocusing) => state' = state
       /\ (fired' = "onReturn" /\ ~state.isFocusing) =>
             /\ state'.isFocusing
             /\ state'.focusTimeStart = now
             /\ state'.focusSessions = state.focusSessions + 1
             /\ state'.focusTimeAccumulated = state.focusTimeAccumulated
       /\ (fired' = "onReturn" /\ state.isFocusing) => state' = state]_vars

\* onAway paused a Focusing tracker and credited its interval
C10_Witness ==
    /\ fired = "onAway"
    /\ prev.isFocusing
    /\ ~state.isFocusing
    /\ state.focusTimeAccumulated = prev.focusTimeAccumulated + (now - prev.focusTimeStart)
    /\ state.focusTimeAccumulated > 0

\* C11: presence events are edge-triggered: on every handler of a live
\* detector, a change of isPresent from true to false fires onAway, a change
\* from false to true fires onReturn, each once, and a handler that leaves
\* isPresent as it was fires neither (repeated samples without a face while
\* Away, or with a face while Present, fire nothing).
C11_EdgeTriggered ==
    [][lastOp' # "load" =>
          /\ (presence.isPresent /\ ~presence'.isPresent => fired' = "onAway")
          /\ (~presence.isPresent /\ presence'.isPresent => fired' = "onReturn")
          /\ (presence'.isPresent = presence.isPresent => fired' = "none")]_vars

\* a further sample without a face while Away, after onAway has fired
C11_Witness ==
    /\ lastOp = "onResults"
    /\ input = "noFace"
    /\ fired = "none"
    /\ ~presence.isPresent
    /\ Truthy(presence.awayStartTime)

\* C12: away hysteresis: onAway fires only on a sample without a face, while
\* Present, taken at least awayThreshold after lastSeenTime; lastSeenTime is
\* the time of the most recent sample with a face: every such sample sets it
\* to the current time (restarting the countdown) and nothing else changes it.
C12_AwayHysteresis ==
    [][/\ fired' = "onAway" =>
            /\ input' = "noFace"
            /\ presence.isPresent
            /\ presence.lastSeenTime # Null
            /\ now - presence.lastSeenTime >= AwayThreshold
       /\ input' = "face" => presence'.lastSeenTime = now
       /\ (input' # "face" /\ lastOp' # "load") =>
            presence'.lastSeenTime = presence.lastSeenTime]_vars

\* onAway has fired on a sample taken awayThreshold after the last face
C12_Witness ==
    /\ fired = "onAway"
    /\ input = "noFace"
    /\ ~presence.isPresent
    /\ now - presence.lastSeenTime >= AwayThreshold

\* C13: return hysteresis: onReturn fires only on a sample with a face, while
\* not Present, taken at least returnThreshold after returnCheckStart;
\* returnCheckStart is the time of the first sample with a face of the current
\* unbroken run: only such a sample sets it, and every sample without a face
\* clears it, so that the run must restart.
C13_ReturnHysteresis ==
    [][/\ fired' = "onReturn" =>
            /\ input' = "face"
            /\ ~presence.isPresent
            /\ returnCheckStart # Null
            /\ now - returnCheckStart >= ReturnThreshold
       /\ input' = "noFace" => returnCheckStart' = Null
       /\ (returnCheckStart' # returnCheckStart /\ returnCheckStart' # Null) =>
            /\ input' = "face"
            /\ ~presence.isPresent
            /\ returnCheckStart = Null
            /\ returnCheckStart' = now]_vars

\* onReturn has fired on a sample with a face
C13_Witness ==
    /\ fired = "onReturn"
    /\ input = "face"
    /\ presence.isPresent
    /\ presence.lastSeenTime = now
    /\ returnCheckStart = Null

\* C14: the manual toggle is unconditional: whatever the presence state, the
\* Pomodoro phase and the trigger that produced the focus state, the handler
\* of toggleFocus() can run on an open page, and when it runs it leaves a
\* Focusing tracker Paused and a Paused tracker Focusing.
C14_ToggleUnconditional ==
    [][/\ (page = "open" /\ (state.isFocusing \/ state.focusSessions < MaxSessions))
            => ENABLED ToggleFocus
       /\ lastOp' = "toggleFocus" => state'.isFocusing = ~state.isFocusing]_vars

\* the toggle has started focus while the user is Away and the timer is in a break
C14_Witness ==
    /\ lastOp = "toggleFocus"
    /\ state.isFocusing
    /\ ~prev.isFocusing
    /\ ~presence.isPresent
    /\ Truthy(presence.awayStartTime)
    /\ pomodoro.currentPhase # "work"

PomodoroStartOps == {"pomodoroToggle", "pomodoroAutoStart"}

PomodoroPhaseOps == {"pomodoroSetPhase", "pomodoroSkip", "pomodoroTick"}

C16_BreakNeverPauses ==
    [][/\ (lastOp' \in {"pomodoroSetPhase", "pomodoroReset", "pomodoroSkip", "pomodoroTick"}
             \/ (lastOp' = "pomodoroToggle" /\ pomodoro.isRunning)) =>
            /\ state'.isFocusing = state.isFocusing
            /\ state'.focusTimeAccumulated = state.focusTimeAccumulated
            /\ state'.focusTimeStart = state.focusTimeStart
            /\ state'.longestStreak = state.longestStreak
       /\ lastOp' \in PomodoroStartOps =>
            /\ state.isFocusing => state'.isFocusing
            /\ state.isFocusing => state'.focusTimeStart = state.focusTimeStart
            /\ state'.focusTimeAccumulated = state.focusTimeAccumulated
            /\ state'.longestStreak = state.longestStreak]_vars

\* a tick has completed the work phase into a break while an interval is open
C16_Witness ==
    /\ lastOp = "pomodoroTick"
    /\ pomodoro.currentPhase \in {"shortBreak", "longBreak"}
    /\ ~pomodoro.isRunning
    /\ pomodoro.timeouts # <<>>
    /\ state.isFocusing
    /\ state.focusTimeStart < now

\* C17: a confirmed resetFocus() (answered yes, or not asked) sets
\* focusTimeAccumulated, focusSessions and longestStreak to zero, closes the
\* open interval without crediting it (the focus time read afterwards is zero
\* and the database is not written), leaves the tracker Paused and leaves
\* realTimeStart unchanged.
C17_ResetDiscards ==
    [][(lastOp' = "resetFocus" /\ input' # "no") =>
          /\ state'.focusTimeAccumulated = 0
          /\ state'.focusSessions = 0
          /\ state'.longestStreak = 0
          /\ state'.focusTimeStart = Null
          /\ state'.currentStreakStart = Null
          /\ ~state'.isFocusing
          /\ getFocusTimeMs(state', now) = 0
          /\ state'.realTimeStart = state.realTimeStart
          /\ db' = db]_vars

\* a reset answered yes has discarded an open interval and the credited time
C17_Witness ==
    /\ lastOp = "resetFocus"
    /\ input = "yes"
    /\ prev.isFocusing
    /\ prev.focusTimeStart < now
    /\ prev.focusTimeAccumulated > 0
    /\ prev.longestStreak > 0
    /\ state.focusTimeAccumulated = 0

\* the tracker holds accumulated state
NonZeroState(st) ==
    \/ st.focusTimeAccumulated > 0
    \/ st.isFocusing
    \/ st.focusSessions > 0
    \/ st.longestStreak > 0

\* C18: reset confirmation gate: whenever the tracker holds non-zero
\* accumulated state (focusTimeAccumulated > 0, an open interval,
\* focusSessions > 0 or longestStreak > 0), resetFocus() asks for confirmation
\* and discards only on yes; on no, every field of the state and the
\* persisted slot are unchanged.
C18_ConfirmationGate ==
    [][(lastOp' = "resetFocus" /\ NonZeroState(state)) =>
          /\ input' \in {"yes", "no"}
          /\ input' = "no" => (state' = state /\ storage' = storage)]_vars

\* the handler that runs is one that calls saveDailyStats(): the 5 minute
\* timer, beforeunload, and the pauses of a Focusing tracker
CallsSaveDailyStats ==
    \/ lastOp' \in {"autoSave", "beforeUnload"}
    \/ (lastOp' \in {"toggleFocus", "onDrowsy", "onPhoneDetected"} /\ state.isFocusing)

\* C19: daily stat upsert: a call of saveDailyStats leaves, under today's
\* date key, one record whose fields are those of the call's snapshot
\* (overwriting the earlier record of that date, not summed with it) and
\* leaves the records of the other dates as they were; no other handler
\* writes the store; every record is stored under its own date; and putting
\* a stored record again leaves the store as it is.
C19_DailyUpsert ==
    [][/\ CallsSaveDailyStats =>
            LET k == isoDateKey(now) IN
            /\ DOMAIN db' = DOMAIN db \cup {k}
            /\ db'[k].date = k
            /\ db'[k].focusTimeMs = getFocusTimeMs(state', now)
            /\ db'[k].realTimeMs = getRealTimeMs(state', now)
            /\ db'[k].sessions = state'.focusSessions
            /\ db'[k].longestStreak = state'.longestStreak
            /\ db'[k].awayTime = getAwayTime(presence', now)
            /\ db'[k].updatedAt = now
            /\ \A j \in DOMAIN db : j # k => db'[j] = db[j]
       /\ ~CallsSaveDailyStats => db' = db
       /\ \A k \in DOMAIN db' : db'[k].date = k /\ put(db', db'[k]) = db']_vars

\* the second pause of a day has replaced the record the first pause stored
C19_Witness ==
    /\ hist.pure
    /\ Len(hist.closed) = 2
    /\ ~state.isFocusing
    /\ DOMAIN db = {isoDateKey(now)}
    /\ db[isoDateKey(now)].sessions = 2
    /\ db[isoDateKey(now)].focusTimeMs = SumSeq(hist.closed)
    /\ hist.closed[1] > 0
    /\ hist.closed[2] > 0

C21_TrackedDaysOnly ==
    \A k \in DOMAIN db : db[k].sessions > 0 \/ db[k].focusTimeMs > 0

\* C22: clock anomaly clamping: a pause or a teardown whose clock reading is
\* earlier than focusTimeStart does not lower focusTimeAccumulated, and
\* focusTimeAccumulated, longestStreak and getFocusTimeMs() are never
\* negative, whatever the sequence of clock readings.
C22_ClockClamp ==
    [][/\ lastOp' \in {"toggleFocus", "onDrowsy", "onPhoneDetected", "beforeUnload"} =>
            state'.focusTimeAccumulated >= state.focusTimeAccumulated
       /\ state'.focusTimeAccumulated >= 0
       /\ state'.longestStreak >= 0
       /\ getFocusTimeMs(state', now') >= 0]_vars

\* C23: a persistence write failure is swallowed: when the write of the
\* session slot or of the daily record fails during startFocus, pauseFocus,
\* resetFocus, initialisation or teardown, the state transition of the
\* operation is committed in memory, no exception leaves the operation, and
\* the tracker goes on accepting events (after initialisation the page is up).
C23_WriteFailureSwallowed ==
    [][input' \in {"slotWriteFails", "dbWriteFails"} =>
          /\ ~thrown'
          /\ lastOp' = "toggleFocus" =>
                state' = IF state.isFocusing THEN pauseFocusState(state, now)
                         ELSE startFocusState(state, now)
          /\ lastOp' = "resetFocus" => state' = resetFocusState(state)
          /\ lastOp' = "beforeUnload" => state' = beforeUnloadState(state, now)
          /\ lastOp' = "load" =>
                (page' = "open" /\ state' = loadState(ConstructorState, storage, now))]_vars

\* the value is a non-negative number
IsCount(v) == v # Null /\ v # NonNumeric /\ v >= 0

\* the blob is corrupt: unparseable, without a valid day start, or with a
\* counter that is not a number
IsCorrupt(slot) ==
    \/ slot = Unparseable
    \/ /\ slot # NoSlot
       /\ slot # Unparseable
       /\ \/ slot.realTimeStart = InvalidDate
          \/ slot.focusTimeAccumulated = NonNumeric
          \/ slot.focusSessions = NonNumeric
          \/ slot.longestStreak = NonNumeric

\* C24: malformed persisted state: loadState discards every corrupt blob and
\* initialises a fresh day (counters zero, Paused, day start now) without an
\* exception, and the counters after a restore are non-negative numbers.
C24_MalformedState ==
    [][lastOp' = "load" =>
          /\ IsCorrupt(storage) => state' = resetForNewDay(ConstructorState, now)
          /\ IsCount(state'.focusTimeAccumulated)
          /\ IsCount(state'.focusSessions)
          /\ IsCount(state'.longestStreak)
          /\ ~thrown']_vars

\* C25: degraded mode: on a page whose presence detector failed to initialise
\* the manual toggle still starts and pauses focus, the Pomodoro timer exists
\* (so that its work-phase start can request Focusing), and no presence
\* callback fires.
C25_DegradedMode ==
    [][/\ lastOp' = "toggleFocus" => state'.isFocusing = ~state.isFocusing
       /\ page' = "open" => pomodoro' # NoPomodoro
       /\ fired' = "none"]_vars

\* C26: the display refresh is read-only: the 100 ms tick (with the queries
\* getRealTimeMs, getFocusTimeMs and getCurrentStreakMs it calls) and the
\* periodic saveToDatabase leave every field of the tracker state unchanged.
C26_RefreshReadOnly ==
    [][lastOp' \in {"tick", "autoSave"} => state' = state]_vars

\* the periodic save has stored a record that counts the running interval,
\* which the tracker state still holds as running and uncredited
C26_Witness ==
    /\ lastOp = "autoSave"
    /\ state.isFocusing
    /\ state = prev
    /\ isoDateKey(now) \in DOMAIN db
    /\ db[isoDateKey(now)].focusTimeMs > state.focusTimeAccumulated
    /\ db[isoDateKey(now)].updatedAt = now

\* C27: day rollover at the calendar-day boundary: once a handler has run on
\* an open page, the day start is of the current calendar date (the counters
\* of an earlier date have been reset, reload or not), and a stored record
\* holds no more focus time than has passed of its calendar date when it was
\* written.
C27_DayRollover ==
    /\ (page = "open" /\ lastOp # "clock") =>
          toDateString(state.realTimeStart) = toDateString(now)
    /\ \A k \in DOMAIN db :
          db[k].localDate = toDateString(db[k].updatedAt) =>
             db[k].focusTimeMs <= (db[k].updatedAt + TzOffset) % DayLen

\* C28: focusTimeAccumulated never decreases within a tracked day: while the
\* clock does not go back, only a confirmed resetFocus and a restore onto a
\* new day lower it, whatever the interleaving of start, pause, presence,
\* Pomodoro, autosave, teardown and same-day reload.
C28_AccumulatedMonotone ==
    [][(/\ ~(lastOp' = "resetFocus" /\ input' = "yes")
        /\ ~(lastOp' = "load" /\ ~SameDay(storage, now))) =>
          state'.focusTimeAccumulated >= state.focusTimeAccumulated]_vars

\* a reload on the same day, after the page went away while Focusing, has
\* restored all the credited time
C28_Witness ==
    /\ lastOp = "load"
    /\ prev.isFocusing
    /\ prev.focusTimeAccumulated > 0
    /\ state.focusTimeAccumulated = prev.focusTimeAccumulated
    /\ toDateString(state.realTimeStart) = toDateString(now)
    /\ ~state.isFocusing

\* C29: longestStreak is committed only when an interval ends: a tick, an
\* autosave, a start request, the clock and a teardown leave it as it is; it
\* changes only in a pause (to the larger of its previous value and the length
\* of the interval just closed), in a reset and in a restore.
C29_StreakCommitted ==
    [][/\ state'.longestStreak # state.longestStreak =>
             \/ lastOp' \in {"resetFocus", "load"}
             \/ (state.isFocusing /\ ~state'.isFocusing)
       /\ (state.isFocusing /\ ~state'.isFocusing
             /\ lastOp' \notin {"resetFocus", "load"}) =>
             state'.longestStreak =
                IF now - state.focusTimeStart > state.longestStreak
                THEN now - state.focusTimeStart ELSE state.longestStreak
       /\ (\/ lastOp' \in {"tick", "autoSave", "clock", "beforeUnload", "kill"}
           \/ state'.focusSessions = state.focusSessions + 1) =>
             state'.longestStreak = state.longestStreak]_vars

\* a pause has raised a longestStreak that an earlier pause had set, the
\* running interval having outgrown it unrecorded before
C29_Witness ==
    /\ lastOp = "toggleFocus"
    /\ prev.isFocusing
    /\ ~state.isFocusing
    /\ prev.longestStreak > 0
    /\ state.longestStreak = now - prev.focusTimeStart
    /\ state.longestStreak > prev.longestStreak

\* C30: snapshot on every transition: when a start, a pause or a reset that
\* was not declined has completed, the session slot holds the in-memory day
\* start, focusTimeAccumulated, focusSessions and longestStreak, and has no
\* field for the live interval start or for the isFocusing flag.
C30_SnapshotOnTransition ==
    [][(/\ lastOp' \notin {"load", "kill", "beforeUnload", "clock"}
        /\ \/ state'.isFocusing # state.isFocusing
           \/ state'.focusSessions # state.focusSessions
           \/ (lastOp' = "resetFocus" /\ input' # "no")) =>
          /\ DOMAIN storage' = {"realTimeStart", "focusTimeAccumulated",
                                "focusSessions", "longestStreak"}
          /\ parseDate(storage'.realTimeStart) = state'.realTimeStart
          /\ storage'.focusTimeAccumulated = state'.focusTimeAccumulated
          /\ storage'.focusSessions = state'.focusSessions
          /\ storage'.longestStreak = state'.longestStreak]_vars

\* the second start of a day has been saved: the slot counts two sessions and
\* the time of the first, and the interval that has just begun is in memory only
C30_Witness ==
    /\ lastOp = "toggleFocus"
    /\ state.isFocusing
    /\ state.focusTimeStart = now
    /\ ~prev.isFocusing
    /\ storage.focusSessions = 2
    /\ storage.focusTimeAccumulated > 0
    /\ storage.longestStreak > 0
    /\ storage.focusSessions = prev.focusSessions + 1

\* C31: recorded focus time counts the open interval exactly once: the daily
\* record written by a pause, by the 5 minute autosave or by the teardown
\* handler has focusTimeMs equal to the focusTimeAccumulated of the completed
\* intervals plus, if an interval was open, now - focusTimeStart once; so the
\* teardown handler records what an autosave at the same instant would.
C31_OpenIntervalOnce ==
    [][(/\ hasDb
        /\ \/ lastOp' \in {"autoSave", "beforeUnload"}
           \/ (state.isFocusing /\ ~state'.isFocusing
                 /\ lastOp' \notin {"load", "resetFocus", "kill"})) =>
          /\ isoDateKey(now) \in DOMAIN db'
          /\ db'[isoDateKey(now)].focusTimeMs =
                state.focusTimeAccumulated +
                   (IF state.isFocusing THEN now - state.focusTimeStart ELSE 0)]_vars

\* C32: every pause flushes the ledger: when a handler (manual toggle, onAway,
\* drowsiness, phone detection) has taken the tracker from Focusing to Paused,
\* the session slot holds the state after the pause and the store holds a record
\* of today written now whose totals include the interval just closed.
C32_PauseFlushes ==
    [][(/\ state.isFocusing /\ ~state'.isFocusing
        /\ lastOp' \in {"toggleFocus", "onResults", "onDrowsy", "onPhoneDetected"}) =>
          /\ storage' = saveState(state')
          /\ isoDateKey(now) \in DOMAIN db'
          /\ db'[isoDateKey(now)].updatedAt = now
          /\ db'[isoDateKey(now)].focusTimeMs =
                state.focusTimeAccumulated + (now - state.focusTimeStart)
          /\ db'[isoDateKey(now)].sessions = state.focusSessions
          /\ db'[isoDateKey(now)].longestStreak = state'.longestStreak]_vars

\* the presence detector has paused a running interval of positive length and
\* the record of today counts it
C32_Witness ==
    /\ lastOp = "onResults"
    /\ fired = "onAway"
    /\ prev.isFocusing
    /\ ~state.isFocusing
    /\ now > prev.focusTimeStart
    /\ isoDateKey(now) \in DOMAIN db
    /\ db[isoDateKey(now)].focusTimeMs = state.focusTimeAccumulated
    /\ db[isoDateKey(now)].focusTimeMs > prev.focusTimeAccumulated
    /\ db[isoDateKey(now)].updatedAt = now

\* the user is Away after an onAway: an away interval is in progress
AwayOpen(p) == ~p.isPresent /\ p.awayStartTime # Null

\* C34: away-time accounting: getAwayTime() is the time spent Away after an
\* onAway since the page was loaded: it grows with the clock while an away
\* interval is in progress and only then, and no handler makes it jump (so it
\* is the sum of the closed away intervals plus the one in progress);
\* totalAwayTime grows only when Present is entered, by exactly the away
\* interval then closed.
C34_AwayAccounting ==
    [][/\ lastOp' = "clock" =>
             getAwayTime(presence', now') =
                getAwayTime(presence, now) + (IF AwayOpen(presence) THEN now' - now ELSE 0)
       /\ lastOp' \notin {"clock", "load"} =>
             getAwayTime(presence', now') = getAwayTime(presence, now)
       /\ (presence'.totalAwayTime # presence.totalAwayTime /\ lastOp' # "load") =>
             /\ fired' = "onReturn"
             /\ AwayOpen(presence)
             /\ presence'.isPresent
             /\ presence'.totalAwayTime =
                   presence.totalAwayTime + (now - presence.awayStartTime)]_vars

\* a second away interval is in progress after a first one of positive length
\* was closed, and getAwayTime() counts both
C34_Witness ==
    /\ AwayOpen(presence)
    /\ presence.totalAwayTime > 0
    /\ now > presence.awayStartTime
    /\ getAwayTime(presence, now) = presence.totalAwayTime + (now - presence.awayStartTime)

\* C33: tab killed mid-interval: after a kill while Focusing and a reload on
\* the same day, focusTimeAccumulated and longestStreak are what they were at
\* the last completed pause (the sum and the maximum of the closed intervals:
\* the partial interval is lost), the tracker is Paused, and focusSessions
\* counts every interval started, the lost one included.
C33_KilledMidInterval ==
    [][(/\ lastOp' = "load" /\ lastOp = "kill"
        /\ state.isFocusing
        /\ SameDay(storage, now)) =>
          /\ ~state'.isFocusing
          /\ state'.focusTimeStart = Null
          /\ state'.focusTimeAccumulated = state.focusTimeAccumulated
          /\ state'.longestStreak = state.longestStreak
          /\ state'.focusSessions = state.focusSessions
          /\ hist.pure =>
                /\ state'.focusTimeAccumulated = SumSeq(hist.closed)
                /\ state'.longestStreak = MaxSeq(hist.closed)
                /\ state'.focusSessions = hist.started]_vars

\* the page has been reloaded on the day on which it was killed during the
\* second interval, some time after that interval began
C33_Witness ==
    /\ lastOp = "load"
    /\ prev.isFocusing
    /\ now > prev.focusTimeStart
    /\ toDateString(state.realTimeStart) = toDateString(now)
    /\ state.realTimeStart = prev.realTimeStart
    /\ ~state.isFocusing
    /\ state.focusSessions = 2
    /\ state.focusTimeAccumulated > 0
    /\ state.focusTimeAccumulated = prev.focusTimeAccumulated

\* C35: recorded away time is day-cumulative: a record that replaces the
\* record of its date, also after a reload of the page on that day, never has
\* a smaller awayTime than the record it replaces.
C35_AwayCumulative ==
    [][\A k \in DOMAIN db :
          k \in DOMAIN db' /\ db'[k].awayTime >= db[k].awayTime]_vars

\* C36: single notion of the tracked day: a record written while the tracked
\* day is the current local calendar date D (the date by which loadState
\* decides between restore and rollover) is stored under the key D, and its
\* calendar fields (month, year, dayOfWeek) are those of D.
C36_SingleTrackedDay ==
    [][(db' # db /\ toDateString(state'.realTimeStart) = toDateString(now)) =>
          LET D == toDateString(state'.realTimeStart)
          IN /\ D \in DOMAIN db'
             /\ db'[D].updatedAt = now
             /\ db'[D].date = D
             /\ db'[D].localDate = D]_vars

\* C37: credited time is backed by sessions and streaks: on an open page
\* longestStreak <= focusTimeAccumulated <= focusSessions * longestStreak.
C37_CreditBacked ==
    page = "open" =>
       /\ state.longestStreak <= state.focusTimeAccumulated
       /\ state.focusTimeAccumulated <= state.focusSessions * state.longestStreak

\* C38: the Pomodoro work timer never starts without user action: the timer
\* is set running in the work phase only by a press of the Start button, and
\* the tracker is taken to Focusing only by that press or by the manual
\* toggle, whatever the interleaving of skip, phase buttons, start/pause
\* clicks and the auto-start queued when a work phase completes.
C38_NoUnattendedWork ==
    [][/\ (~pomodoro.isRunning /\ pomodoro'.isRunning
             /\ pomodoro'.currentPhase = "work") => lastOp' = "pomodoroToggle"
       /\ (~state.isFocusing /\ state'.isFocusing) =>
             lastOp' \in {"pomodoroToggle", "toggleFocus"}]_vars

\* a phase completes in this step: a click on Skip, or a tick of the running
\* timer that finds no time remaining
PhaseCompletes ==
    \/ lastOp' = "pomodoroSkip"
    \/ /\ lastOp' = "pomodoroTick"
       /\ pomodoro.isRunning
       /\ now - pomodoro.startTime >=
             (IF Truthy(pomodoro.pausedTime) THEN pomodoro.pausedTime
              ELSE getDurationForPhase(pomodoro.currentPhase))

\* C39: Pomodoro phase sequencing: completedPomodoros and totalPomodorosToday
\* grow by one when a work phase completes and change at no other step; the
\* phase after a completed work phase is longBreak if completedPomodoros is
\* then a multiple of longBreakInterval, else shortBreak; the phase after a
\* completed break is work with the full work duration remaining.
C39_PhaseSequencing ==
    [][/\ (PhaseCompletes /\ pomodoro.currentPhase = "work") =>
             /\ pomodoro'.completedPomodoros = pomodoro.completedPomodoros + 1
             /\ pomodoro'.totalPomodorosToday = pomodoro.totalPomodorosToday + 1
             /\ pomodoro'.currentPhase =
                   IF pomodoro'.completedPomodoros % LongBreakInterval = 0
                   THEN "longBreak" ELSE "shortBreak"
       /\ (PhaseCompletes /\ pomodoro.currentPhase # "work") =>
             /\ pomodoro'.currentPhase = "work"
             /\ pomodoro'.timeRemaining = WorkDuration
       /\ ~(PhaseCompletes /\ pomodoro.currentPhase = "work") =>
             /\ pomodoro'.completedPomodoros = pomodoro.completedPomodoros
             /\ pomodoro'.totalPomodorosToday = pomodoro.totalPomodorosToday]_vars

\* the timer has run out on the work phase that completes an interval of
\* longBreakInterval, after a short break in between
C39_Witness ==
    /\ lastOp = "pomodoroTick"
    /\ pomodoro.completedPomodoros = LongBreakInterval
    /\ pomodoro.totalPomodorosToday = LongBreakInterval
    /\ pomodoro.currentPhase = "longBreak"
    /\ pomodoro.timeRemaining = LongBreakDuration
    /\ ~pomodoro.isRunning
    /\ pomodoro.timeouts # <<>>

\* C40: the Pomodoro timer has at most one ticking interval: isRunning is
\* true exactly when timerInterval is set, one interval ticks while the timer
\* runs and none when it does not.
C40_SingleInterval ==
    /\ pomodoro.isRunning <=> pomodoro.timerInterval
    /\ pomodoro.liveIntervals = IF pomodoro.isRunning THEN 1 ELSE 0

\* the auto-start queued by a completed work phase has come due on a timer
\* that the Start button had set running before: one interval ticks
C40_Witness ==
    /\ lastOp = "pomodoroAutoStart"
    /\ pomodoro.isRunning
    /\ pomodoro.startTime < now
    /\ pomodoro.completedPomodoros >= 1
    /\ pomodoro.timerInterval
    /\ pomodoro.liveIntervals = 1


====
